---- MODULE Spec2Model ----
(***************************************************************************)
(* Model of the chat relay server (src/server/server.py).                  *)
(*                                                                         *)
(* One worker thread (handle_client) per accepted connection and one       *)
(* background thread (inactive_checker) share the dictionary `clients`     *)
(* under `clients_lock`.  Every critical section of the code is one atomic *)
(* step of the model; the position of each thread between two critical     *)
(* sections is kept in pc / spc.  Statements that touch nothing shared     *)
(* (reading and parsing a line) belong to the step of the critical section *)
(* that follows them.                                                      *)
(***************************************************************************)
EXTENDS Integers, Sequences, FiniteSets, TLC

\* ------------------------------------------------------------------ bounds
NConn == 2          \* connections accepted during a run
MaxTime == 160      \* the clock stops here
Quantum == 50       \* granularity of the clock
MaxWrite == 2       \* lines a client queues on its connection (FifoSpec)
MaxConnects == 2    \* calls of ChatClient.connect (ClientSpec)
MaxOut == 3         \* bytes an output file may reach (ReceiverSpec)
MaxFile == 3        \* bytes of the largest file that is sent (SenderSpec)
ChunkSize == 2      \* chunk_size of _send_file_chunks, scaled down from 4096
MaxThreads == 1     \* _send_file_chunks threads alive at once (SenderSpec)

\* ------------------------------------------------------ program constants
Timeout == 120      \* inactive_checker: now - last_ping > 120

Conns == 1..NConn

\* Python's None (a missing key of a record, a missing return value).
None == "<None>"

\* the values a client may put in `username` / `to`
Usernames == {"", "a", "b"}

\* a `from` value a client may forge in a record it sends
Forged == "zz"

ACTION_CONNECT == "connect"
ACTION_PING == "ping"
ACTION_MESSAGE == "message"
ACTION_DISCONNECT == "disconnect"
ACTION_USER_LIST == "user_list"
ACTION_ERROR == "error"
ACTION_FILE_REQUEST == "file_transfer_request"
ACTION_FILE_ACCEPT == "file_transfer_accept"
ACTION_FILE_CANCEL == "file_transfer_cancel"
ACTION_FILE_DATA == "file_transfer_data"
ACTION_FILE_COMPLETE == "file_transfer_complete"

FileActions == {ACTION_FILE_REQUEST, ACTION_FILE_ACCEPT, ACTION_FILE_CANCEL,
                ACTION_FILE_DATA, ACTION_FILE_COMPLETE}

VARIABLES
    clients,     \* the registry: handle -> [conn, last_ping]
    open,        \* open[c]: the server's socket object of connection c is open
    sent,        \* the records the last step wrote: pairs <<connection, record>>
    resp,        \* resp[c]: the connect-response written to connection c
    pc,          \* position of the worker of connection c in handle_client
    username,    \* username returned by register_client
    err,         \* err returned by register_client
    now,         \* time.time()
    spc,         \* position of inactive_checker
    removed,     \* the list `removed` of inactive_checker
    gone,        \* history: how the session of connection c left the registry
    roster,      \* history: the last user list written to connection c, if any
    wire,        \* wire[c]: the lines written by the client of c, not yet read
    wrote,       \* wrote[c]: how many lines the client of c has written
    inbox,       \* inbox[c]: the message records written to connection c
    lock,        \* clients_lock: the set of threads holding it (none or one)
    at,          \* at[t]: where thread t is with respect to the registry
    running,     \* ChatClient.running
    sock,        \* ChatClient.sock: none, unconnected, open or closed
    receivers,   \* the _receive_loop threads that are alive
    pingers,     \* the _ping_loop threads that are alive
    connects,    \* calls of connect so far
    calls,       \* the callbacks the last step invoked, in order
    cwritten,    \* the records the last step wrote to the socket, in order
    craised,     \* the last step ended with an uncaught exception
    op,          \* the operation the last step was
    notified,    \* history: on_disconnected calls since the last successful connect
    stale,       \* history: the ping loops alive that an earlier session started
    receiving_files,   \* _receiving_files: (sender, filename) -> save_path
    disk,              \* the content of the file at each save path
    got,         \* history: the bytes that arrived for a key since its accept
    cancelled,   \* history: the transfers a cancel record was received for
    pending_file_send, \* _pending_file_send: (to_user, file_path, filename)
    chunkers,    \* the _send_file_chunks threads that are alive
    finished,    \* history: the last _send_file_chunks thread that ended
    usent,       \* the send_file_* calls the last step made, in order
    printed,     \* what the last step printed: <<kind, peer, filename>>
    requested    \* history: the (recipient, filename) requested and not yet accepted

\* the transport of FifoSpec
fifovars == <<wire, wrote, inbox>>

\* the lock of LockSpec
lockvars == <<lock, at>>

\* the ChatClient of ClientSpec
clivars == <<running, sock, receivers, pingers, connects, calls, cwritten,
             craised, op, notified, stale>>

\* the file transfers of the user interface
uivars == <<receiving_files, disk, got, cancelled, pending_file_send,
            chunkers, finished, usent, printed, requested>>

\* the server
srvvars == <<clients, open, sent, resp, pc, username, err, now, spc, removed,
             gone, roster>>

\* the threads: the worker of each connection and inactive_checker (0)
Threads == {0} \cup Conns

Outside == [site |-> "none", phase |-> "out"]

vars == <<clients, open, sent, resp, pc, username, err, now, spc,
          removed, gone, roster, fifovars, lockvars, clivars, uivars>>

\* ------------------------------------------------------------ wire values
\* a line read from a connection: end of stream, a line that is no JSON,
\* or a JSON object (absent keys are None)
EOF == [kind |-> "eof"]
Malformed == [kind |-> "malformed"]
Json(a, u, t, m, f) ==
    [kind |-> "json", action |-> a, username |-> u, to |-> t, message |-> m,
     from |-> f]

build_connect_response_ok == [action |-> ACTION_CONNECT, status |-> "ok"]
build_connect_response_err(e) ==
    [action |-> ACTION_CONNECT, status |-> "error", error |-> e]
build_user_list(users) == [action |-> ACTION_USER_LIST, users |-> users]
build_error(e) == [action |-> ACTION_ERROR, error |-> e]

\* the error texts; an f-string is the sequence of its pieces
ErrNone == << >>
ErrNoData == <<"no data received">>
ErrMalformed == <<"malformed JSON">>
ErrInvalid == <<"invalid connect protocol">>
ErrTaken == <<"username already taken">>
ErrWrongFormat == <<"wrong message format">>
ErrUnknownAction == <<"unknown action">>
ErrNotFound(target) == <<"user ", target, " not found">>

\* Python truthiness of a string-or-None value
Falsy(x) == x = None \/ x = ""

\* the first line a connection may send
FirstLines ==
    {EOF, Malformed}
    \cup {Json(ACTION_CONNECT, u, None, None, None) : u \in Usernames}
    \cup {Json(ACTION_CONNECT, None, None, None, None),
          Json(ACTION_PING, "a", None, None, None)}

\* the records a connection may send after the handshake: the four plain
\* actions, messages (well-formed, with and without a forged `from`, and
\* lacking `to` or text) and the five file-transfer actions
LoopRecords ==
    {Json(a, None, None, None, None) :
        a \in {ACTION_PING, ACTION_DISCONNECT, "bogus", None}}
    \cup {Json(ACTION_MESSAGE, None, t, "hi", f) :
            t \in {"a", "b"}, f \in {None, Forged}}
    \cup {Json(ACTION_MESSAGE, None, None, "hi", None),
          Json(ACTION_MESSAGE, None, "", "hi", None),
          Json(ACTION_MESSAGE, None, "a", "", None),
          Json(ACTION_MESSAGE, None, "a", None, None)}
    \cup {Json(a, None, t, None, Forged) :
            a \in FileActions, t \in {"a", "b"}}

LoopLines == {EOF, Malformed} \cup LoopRecords

\* ---------------------------------------------------------------- output
\* What a step writes to the connections is a set of pairs
\* <<connection, record>>; `sent` holds what the last step wrote.
NoRec == [action |-> None]

\* ---------------------------------------------------------------- helpers
Registered(c) == \E h \in DOMAIN clients : clients[h].conn = c

\* send_json: the record is written unless the socket is closed (the
\* exception of sendall is swallowed)
send_json(c, data) == IF open[c] THEN {<<c, data>>} ELSE {}

\* broadcast_user_list: the list of the registry to every registered connection
broadcast_user_list ==
    UNION {send_json(clients[h].conn, build_user_list(DOMAIN clients)) :
             h \in DOMAIN clients}

\* the last user list each connection has been sent, after the records s
\* have been written
Receive(old, s) ==
    [c \in Conns |->
        IF \E d \in s : d[1] = c /\ d[2].action = ACTION_USER_LIST
        THEN <<(CHOOSE d \in s :
                  d[1] = c /\ d[2].action = ACTION_USER_LIST)[2].users>>
        ELSE old[c]]

\* del clients[h]
DelKey(cl, h) == [k \in DOMAIN cl \ {h} |-> cl[k]]

\* ----------------------------------------------------- file transfer values
\* the peers that send to this user interface, the names of the files they
\* send, and the one directory the user saves into
Peers == {"a", "c"}
RecvNames == {"f"}
Keys == Peers \X RecvNames
SaveDir == "d"

\* os.path.join(save_dir, filename)
SavePath(filename) == <<SaveDir, filename>>
SavePaths == {SavePath(filename) : filename \in RecvNames}

\* the payloads of the chunks that arrive
Payloads == {<<1>>, <<2, 3>>}

\* the files this user interface sends and the peer it sends them to: a
\* path has a base name and a size; byte i of a file is i
Targets == {"a"}
SrcNames == {"f", "g"}
SrcPaths ==
    {[name |-> "f", size |-> k] : k \in 0..MaxFile}
    \cup {[name |-> "g", size |-> 1]}
basename(path) == path.name
getsize(path) == path.size
FileBytes(path) == [i \in 1..path.size |-> i]

NoPath == << >>
NoPending == << >>

\* ------------------------------------------------------------------- Init
Init ==
    /\ clients = << >>
    /\ open = [c \in Conns |-> TRUE]
    /\ sent = {}
    /\ resp = [c \in Conns |-> NoRec]
    /\ pc = [c \in Conns |-> "accept"]
    /\ username = [c \in Conns |-> None]
    /\ err = [c \in Conns |-> ErrNone]
    /\ now = 0
    /\ spc = "sleep"
    /\ removed = {}
    /\ gone = [c \in Conns |-> "no"]
    /\ roster = [c \in Conns |-> << >>]
    /\ wire = [c \in Conns |-> << >>]
    /\ wrote = [c \in Conns |-> 0]
    /\ inbox = [c \in Conns |-> << >>]
    /\ lock = {}
    /\ at = [t \in Threads |-> Outside]
    /\ running = FALSE
    /\ sock = "none"
    /\ receivers = 0
    /\ pingers = 0
    /\ connects = 0
    /\ calls = << >>
    /\ cwritten = << >>
    /\ craised = FALSE
    /\ op = "init"
    /\ notified = 0
    /\ stale = 0
    /\ receiving_files = << >>
    /\ disk = [path \in SavePaths |-> << >>]
    /\ got = [key \in Keys |-> << >>]
    /\ cancelled = {}
    /\ pending_file_send = NoPending
    /\ chunkers = << >>
    /\ finished = << >>
    /\ usent = << >>
    /\ printed = <<"", "", "">>
    /\ requested = {}

\* ------------------------------------------------------- register_client
\* lines 65-80: read and parse the first line; the result is the requested
\* user, or the error register_client returns
ParseConnect(line) ==
    IF line.kind = "eof" THEN [user |-> None, err |-> ErrNoData]
    ELSE IF line.kind = "malformed" THEN [user |-> None, err |-> ErrMalformed]
    ELSE IF line.action # ACTION_CONNECT \/ line.username = None
         THEN [user |-> None, err |-> ErrInvalid]
    ELSE [user |-> line.username, err |-> ErrNone]

\* lines 83-95: the check-and-insert under clients_lock
CheckAndInsert(cl, c, u) ==
    IF u \in DOMAIN cl
    THEN [reg |-> cl, user |-> None, err |-> ErrTaken]
    ELSE [reg |-> [k \in DOMAIN cl \cup {u} |->
                      IF k = u THEN [conn |-> c, last_ping |-> now] ELSE cl[k]],
          user |-> u, err |-> ErrNone]

\* register_client as a whole: the result for the first line read
register_client(cl, c, line) ==
    LET p == ParseConnect(line) IN
    IF p.err # ErrNone
    THEN [reg |-> cl, user |-> None, err |-> p.err]
    ELSE CheckAndInsert(cl, c, p.user)

\* line 115: the worker of connection c runs register_client
Register(c, line) ==
    /\ pc[c] = "accept"
    /\ LET r == register_client(clients, c, line) IN
        /\ clients' = r.reg
        /\ username' = [username EXCEPT ![c] = r.user]
        /\ err' = [err EXCEPT ![c] = r.err]
    /\ pc' = [pc EXCEPT ![c] = "ret"]
    /\ sent' = {}
    /\ UNCHANGED <<open, resp, now, spc, removed, gone, roster, fifovars, lockvars, clivars, uivars>>

\* ------------------------------------------------- handle_client, step 1-2
\* lines 116-125: the connect-response for the result of register_client
ConnectResponse(user, e) ==
    IF Falsy(user)
    THEN build_connect_response_err(e)
    ELSE build_connect_response_ok

\* lines 116-125: `if not username` answers with the error and closes;
\* otherwise the ok response is sent (outside the lock)
Respond(c) ==
    /\ pc[c] = "ret"
    /\ sent' = send_json(c, ConnectResponse(username[c], err[c]))
    /\ resp' = [resp EXCEPT ![c] =
                  IF open[c] THEN ConnectResponse(username[c], err[c]) ELSE @]
    /\ IF Falsy(username[c])
       THEN /\ open' = [open EXCEPT ![c] = FALSE]
            /\ pc' = [pc EXCEPT ![c] = "done"]
       ELSE /\ open' = open
            /\ pc' = [pc EXCEPT ![c] = "bcast"]
    /\ UNCHANGED <<clients, username, err, now, spc, removed, gone, roster,
                   fifovars, lockvars, clivars, uivars>>

\* line 126: broadcast_user_list() after the ok response
BroadcastRegistered(c) ==
    /\ pc[c] = "bcast"
    /\ sent' = broadcast_user_list
    /\ roster' = Receive(roster, sent')
    /\ pc' = [pc EXCEPT ![c] = "loop"]
    /\ UNCHANGED <<clients, open, resp, username, err, now, spc, removed,
                   gone, fifovars, lockvars, clivars, uivars>>

\* --------------------------------------------------- handle_client, loop
\* (mutant) a relay that keeps the `from` the client supplied
MessagePayload_Trusting(user, msg) ==
    [action |-> ACTION_MESSAGE,
     from |-> IF msg.from # None THEN msg.from ELSE user,
     message |-> msg.message]

\* line 163: the record relayed for a message
MessagePayload(user, msg) ==
    [action |-> ACTION_MESSAGE, from |-> user, message |-> msg.message]

\* (mutant) a ping that refreshes every session of the registry
Touch_All(cl, user) == [h \in DOMAIN cl |-> [cl[h] EXCEPT !.last_ping = now]]

\* lines 145-149: ping refreshes the heartbeat of the session named username
Touch(cl, user) ==
    IF user \in DOMAIN cl
    THEN [cl EXCEPT ![user].last_ping = now]
    ELSE cl

\* (mutant) an answer that does not name the missing user
NotFoundReply_Generic(target) == build_error(<<"user not found">>)

\* line 167: the answer to a message for a user that is not registered
NotFoundReply(target) == build_error(ErrNotFound(target))

\* (mutant) a relay that writes the message to every registered connection
RouteMessage_All(c, msg) ==
    LET target == msg.to
        text == IF msg.message = None THEN "" ELSE msg.message
    IN  IF Falsy(target) \/ Falsy(text)
        THEN send_json(c, build_error(ErrWrongFormat))
        ELSE IF target \in DOMAIN clients
             THEN UNION {send_json(clients[h].conn,
                                   MessagePayload(username[c], msg)) :
                           h \in DOMAIN clients}
             ELSE send_json(c, NotFoundReply(target))

\* lines 151-167: what is written for a message record of connection c
RouteMessage(c, msg) ==
    LET target == msg.to
        text == IF msg.message = None THEN "" ELSE msg.message
    IN  IF Falsy(target) \/ Falsy(text)
        THEN send_json(c, build_error(ErrWrongFormat))
        ELSE IF target \in DOMAIN clients
             THEN send_json(clients[target].conn,
                            MessagePayload(username[c], msg))
             ELSE send_json(c, NotFoundReply(target))

\* (mutant) an unknown action that is dropped without an answer
RouteOther_Silent(c, msg) == {}

\* lines 174-176: every other action
RouteOther(c, msg) == send_json(c, build_error(ErrUnknownAction))

\* lines 143-176: what is written for a record of connection c
Dispatch(c, msg) ==
    IF msg.action \in {ACTION_PING, ACTION_DISCONNECT} THEN {}
    ELSE IF msg.action = ACTION_MESSAGE THEN RouteMessage(c, msg)
    ELSE RouteOther(c, msg)

\* does the loop leave on this line (lines 132-135, 169-172)?
Leaves(line) ==
    line.kind = "eof" \/ (line.kind = "json" /\ line.action = ACTION_DISCONNECT)

\* one iteration of the loop of lines 130-176 on the line read
LoopStep(c, line) ==
    /\ pc[c] = "loop"
    /\ pc' = [pc EXCEPT ![c] = IF Leaves(line) THEN "cleanup" ELSE "loop"]
    /\ clients' = IF line.kind = "json" /\ line.action = ACTION_PING
                  THEN Touch(clients, username[c]) ELSE clients
    /\ sent' = IF line.kind = "json" THEN Dispatch(c, line) ELSE {}
    /\ UNCHANGED <<open, resp, username, err, now, spc, removed, gone, roster>>

\* the worker of c reads the next line of its peer and handles it
HandleRecord(c, line) ==
    /\ LoopStep(c, line)
    /\ UNCHANGED <<fifovars, lockvars, clivars, uivars>>

\* ------------------------------------------------ handle_client, cleanup
\* (mutant) remove_client without the membership test: clients[username]
\* raises KeyError for a handle that is not registered
remove_client_Unguarded(cl, h) ==
    IF h \in DOMAIN cl
    THEN [reg |-> DelKey(cl, h), closed |-> {cl[h].conn}, raised |-> FALSE]
    ELSE [reg |-> cl, closed |-> {}, raised |-> TRUE]

\* (mutant) remove_client that closes the connection and forgets the del
remove_client_NoDel(cl, h) ==
    IF h \in DOMAIN cl
    THEN [reg |-> cl, closed |-> {cl[h].conn}, raised |-> FALSE]
    ELSE [reg |-> cl, closed |-> {}, raised |-> FALSE]

\* lines 45-52: the critical section of remove_client; `closed` are the
\* connections it closes, `raised` whether it raises
remove_client(cl, h) ==
    IF h \in DOMAIN cl
    THEN [reg |-> DelKey(cl, h), closed |-> {cl[h].conn}, raised |-> FALSE]
    ELSE [reg |-> cl, closed |-> {}, raised |-> FALSE]

\* line 183, first half: remove_client(username) up to the release of the lock
RemoveClient(c) ==
    /\ pc[c] = "cleanup"
    /\ LET r == remove_client(clients, username[c]) IN
        /\ clients' = r.reg
        /\ open' = [d \in Conns |-> open[d] /\ d \notin r.closed]
        /\ gone' = [d \in Conns |->
                      IF d \in r.closed
                      THEN (IF d = c THEN "self" ELSE "other")
                      ELSE gone[d]]
        /\ pc' = [pc EXCEPT ![c] = IF r.raised THEN "dead" ELSE "rm_bcast"]
    /\ sent' = {}
    /\ UNCHANGED <<resp, username, err, now, spc, removed, roster, fifovars, lockvars, clivars, uivars>>

\* line 53 and lines 184-187: the broadcast_user_list() that ends
\* remove_client, then conn.close()
RemoveBroadcast(c) ==
    /\ pc[c] = "rm_bcast"
    /\ sent' = broadcast_user_list
    /\ roster' = Receive(roster, sent')
    /\ open' = [open EXCEPT ![c] = FALSE]
    /\ pc' = [pc EXCEPT ![c] = "done"]
    /\ UNCHANGED <<clients, resp, username, err, now, spc, removed, gone,
                   fifovars, lockvars, clivars, uivars>>

\* ------------------------------------------------------ inactive_checker
\* (mutant) the subtraction the wrong way round: nobody is ever stale
Stale_Reversed(cl, t) == {h \in DOMAIN cl : cl[h].last_ping - t > Timeout}

\* (mutant) the period of the sweep (30) taken for the timeout (120)
Stale_Period(cl, t) == {h \in DOMAIN cl : 4 * (t - cl[h].last_ping) > Timeout}

\* line 201: the sessions a sweep at time t evicts
Stale(cl, t) == {h \in DOMAIN cl : t - cl[h].last_ping > Timeout}

\* lines 197-209: one sweep under clients_lock
Sweep ==
    /\ spc = "sleep"
    /\ LET rm == Stale(clients, now)
           closed == {clients[h].conn : h \in rm}
       IN /\ clients' = [k \in DOMAIN clients \ rm |-> clients[k]]
          /\ open' = [d \in Conns |-> open[d] /\ d \notin closed]
          /\ gone' = [d \in Conns |-> IF d \in closed THEN "sweep" ELSE gone[d]]
          /\ removed' = rm
          /\ spc' = IF rm # {} THEN "bcast" ELSE "sleep"
    /\ sent' = {}
    /\ UNCHANGED <<resp, pc, username, err, now, roster, fifovars, lockvars, clivars, uivars>>

\* lines 210-211: the broadcast after a sweep that removed somebody
SweepBroadcast ==
    /\ spc = "bcast"
    /\ sent' = broadcast_user_list
    /\ roster' = Receive(roster, sent')
    /\ spc' = "sleep"
    /\ removed' = {}
    /\ UNCHANGED <<clients, open, resp, pc, username, err, now, gone, fifovars, lockvars, clivars, uivars>>

\* ------------------------------------------------------------------ clock
Tick ==
    /\ now + Quantum <= MaxTime
    /\ now' = now + Quantum
    /\ sent' = {}
    /\ UNCHANGED <<clients, open, resp, pc, username, err, spc, removed,
                   gone, roster, fifovars, lockvars, clivars, uivars>>

\* ------------------------------------------------------------------- Next
Next ==
    \/ \E c \in Conns, line \in FirstLines : Register(c, line)
    \/ \E c \in Conns : Respond(c)
    \/ \E c \in Conns : BroadcastRegistered(c)
    \/ \E c \in Conns, line \in LoopLines : HandleRecord(c, line)
    \/ \E c \in Conns : RemoveClient(c)
    \/ \E c \in Conns : RemoveBroadcast(c)
    \/ Sweep
    \/ SweepBroadcast
    \/ Tick

Spec == Init /\ [][Next]_vars

\* Every thread that is not blocked reading from its peer is eventually
\* scheduled and eventually gets clients_lock; the reads (Register,
\* HandleRecord) wait for the peer and the clock is not forced.
Fairness ==
    /\ \A c \in Conns :
        /\ WF_vars(Respond(c))
        /\ WF_vars(BroadcastRegistered(c))
        /\ WF_vars(RemoveClient(c))
        /\ WF_vars(RemoveBroadcast(c))
    /\ WF_vars(Sweep)
    /\ WF_vars(SweepBroadcast)

FairSpec == Spec /\ Fairness

\* ------------------------------------------------------------ clients_lock
\* LockSpec: the threads and the lock.  Every place of server.py that reads
\* or writes `clients` is a site; a thread arrives at a site, enters it
\* (acquiring clients_lock first if the site is inside a `with clients_lock:`
\* block, which blocks while another thread holds the lock) and leaves it
\* (releasing the lock).  The steps of Spec are these sites taken as atomic.

\* the sites of a worker thread: register_client lines 84-92, the ping
\* refresh lines 148-149, the route lookup lines 161-167, remove_client
\* lines 46-52, broadcast_user_list lines 32-38
WorkerSites == {"register", "ping", "route", "remove", "snapshot"}

\* the sites of inactive_checker: the sweep lines 200-209, and
\* broadcast_user_list lines 32-38
CheckerSites == {"sweep", "snapshot"}

SitesOf(t) == IF t = 0 THEN CheckerSites ELSE WorkerSites

\* (mutant) the ping refresh done without taking the lock
Locked_NotPing(site) ==
    site \in {"register", "route", "remove", "sweep", "snapshot"}

\* the sites inside a `with clients_lock:` block: lines 83, 147, 160, 45,
\* 199 and 31
Locked(site) ==
    site \in {"register", "ping", "route", "remove", "sweep", "snapshot"}

\* thread t arrives at a site
Arrive(t, site) ==
    /\ at[t] = Outside
    /\ at' = [at EXCEPT ![t] = [site |-> site, phase |-> "wait"]]
    /\ UNCHANGED <<lock, clients, open, sent, resp, pc, username, err, now,
                   spc, removed, gone, roster, fifovars, clivars, uivars>>

\* thread t enters the site: Lock.acquire blocks while the lock is held
Enter(t) ==
    /\ at[t].phase = "wait"
    /\ IF Locked(at[t].site)
       THEN lock = {} /\ lock' = {t}
       ELSE lock' = lock
    /\ at' = [at EXCEPT ![t].phase = "in"]
    /\ UNCHANGED <<clients, open, sent, resp, pc, username, err, now,
                   spc, removed, gone, roster, fifovars, clivars, uivars>>

\* thread t leaves the site: the end of the with block releases the lock
Leave(t) ==
    /\ at[t].phase = "in"
    /\ lock' = IF Locked(at[t].site) THEN lock \ {t} ELSE lock
    /\ at' = [at EXCEPT ![t] = Outside]
    /\ UNCHANGED <<clients, open, sent, resp, pc, username, err, now,
                   spc, removed, gone, roster, fifovars, clivars, uivars>>

LockNext ==
    \/ \E t \in Threads : \E site \in SitesOf(t) : Arrive(t, site)
    \/ \E t \in Threads : Enter(t)
    \/ \E t \in Threads : Leave(t)

LockSpec == Init /\ [][LockNext]_vars

\* ------------------------------------------------------------- transport
\* FifoSpec: the connections with their transport.  The client of a
\* connection queues lines on it (ChatClient._send_json); the worker reads
\* them with readline, oldest first, and relays; the message records written
\* to a connection are kept in the order of the sendall calls.  Sessions
\* register and stay; nobody leaves.

\* the texts a client sends, in this order
MsgText == <<"m1", "m2", "m3", "m4", "m5", "m6">>

Serial(text) == CHOOSE k \in 1..Len(MsgText) : MsgText[k] = text

\* the k-th line a client may queue after its connect record
FifoLines(k) ==
    {Json(ACTION_MESSAGE, None, t, MsgText[k], None) : t \in {"a", "b"}}
    \cup {Json(ACTION_PING, None, None, None, None), Malformed}

\* chat_logic.py, _send_json: the client of c appends a line to the stream
ClientWrite(c, line) ==
    /\ wrote[c] < MaxWrite
    /\ wrote[c] < Len(MsgText)
    /\ wire' = [wire EXCEPT ![c] = Append(@, line)]
    /\ wrote' = [wrote EXCEPT ![c] = @ + 1]
    /\ sent' = {}
    /\ UNCHANGED <<clients, open, resp, pc, username, err, now, spc, removed,
                   gone, roster, inbox, lockvars, clivars, uivars>>

\* (mutant) a reader that takes the newest line of the stream
NextLine_Newest(q) == q[Len(q)]

\* line 131: readline returns the oldest unread line of the stream
NextLine(q) == Head(q)

\* line 164: sendall appends the record to the stream of the connection
Deliver(box, s) ==
    [c \in Conns |->
        IF \E d \in s : d[1] = c /\ d[2].action = ACTION_MESSAGE
        THEN Append(box[c], (CHOOSE d \in s :
                               d[1] = c /\ d[2].action = ACTION_MESSAGE)[2])
        ELSE box[c]]

\* lines 130-176 on the stream: the worker of c handles the next line
Relay(c) ==
    /\ wire[c] # << >>
    /\ LoopStep(c, NextLine(wire[c]))
    /\ wire' = [wire EXCEPT ![c] = Tail(@)]
    /\ inbox' = Deliver(inbox, sent')
    /\ UNCHANGED <<wrote, lockvars, clivars, uivars>>

FifoNext ==
    \/ \E c \in Conns, line \in FirstLines : Register(c, line)
    \/ \E c \in Conns : Respond(c)
    \/ \E c \in Conns : BroadcastRegistered(c)
    \/ \E c \in Conns : \E line \in FifoLines(wrote[c] + 1) : ClientWrite(c, line)
    \/ \E c \in Conns : Relay(c)

FifoSpec == Init /\ [][FifoNext]_vars

\* ------------------------------------------------------------ ChatClient
\* ClientSpec: one ChatClient (src/client/chat_logic.py) driven by its user
\* interface and by what the network does.  Each public method is one step;
\* `calls` and `cwritten` hold the callbacks it invoked and the records it
\* wrote.  The server variables are not used.

\* dict.get(key): None for a missing key
Get(rec, key) == IF key \in DOMAIN rec THEN rec[key] ELSE None

\* dict.get(key, default)
GetOr(rec, key, default) == IF key \in DOMAIN rec THEN rec[key] ELSE default

build_connect(name) == [action |-> ACTION_CONNECT, username |-> name]
build_ping == [action |-> ACTION_PING]
build_message(to, message) ==
    [action |-> ACTION_MESSAGE, to |-> to, message |-> message]
build_disconnect == [action |-> ACTION_DISCONNECT]
\* build_file_request ... build_file_complete, as the client calls them:
\* with an empty `from`; the fields of the file are left out
build_file(action, to) == [action |-> action, from |-> "", to |-> to]

\* the callbacks
on_connect_result(success, error) ==
    [cb |-> "on_connect_result", success |-> success, error |-> error]
on_error(error) == [cb |-> "on_error", error |-> error]
on_disconnected == [cb |-> "on_disconnected"]

\* what the network does to a connect attempt: the TCP connect is refused,
\* the send of the connect record fails, or a reply line is read
Transports == {"refused", "sendfail", "reply"}

\* a line that is valid JSON but no object (a list, a number)
JsonArray == [kind |-> "array"]
JsonObject(r) == [kind |-> "object", rec |-> r]

\* the reply lines: end of stream, no JSON, JSON that is no object, the two
\* connect-responses of the server (the error with and without a reason, as
\* the server sends for an empty username), a roster that overtakes the
\* response, a connect record without status
ReplyLines ==
    {EOF, Malformed, JsonArray}
    \cup {JsonObject(r) : r \in
            {build_connect_response_ok,
             build_connect_response_err("username already taken"),
             build_connect_response_err(None),
             build_user_list({"a"}),
             [action |-> ACTION_CONNECT]}}

\* lines 52-100: the outcome of connect(name)
connect(name, transport, line) ==
    IF transport = "refused"
    THEN [ok |-> FALSE, raised |-> FALSE, sock |-> "unconnected",
          written |-> << >>,
          calls |-> <<on_connect_result(FALSE, "Cannot connect to server")>>]
    ELSE IF transport = "sendfail"
    THEN [ok |-> FALSE, raised |-> FALSE, sock |-> "closed",
          written |-> << >>,
          calls |-> <<on_connect_result(FALSE, "Send error")>>]
    ELSE IF line.kind \in {"eof", "malformed"}
    THEN [ok |-> FALSE, raised |-> FALSE, sock |-> "closed",
          written |-> <<build_connect(name)>>,
          calls |-> <<on_connect_result(FALSE, "Invalid response")>>]
    ELSE IF line.kind = "array"
    THEN \* resp.get raises AttributeError outside every try block
         [ok |-> FALSE, raised |-> TRUE, sock |-> "open",
          written |-> <<build_connect(name)>>,
          calls |-> << >>]
    ELSE IF /\ Get(line.rec, "action") = ACTION_CONNECT
            /\ Get(line.rec, "status") = "ok"
    THEN [ok |-> TRUE, raised |-> FALSE, sock |-> "open",
          written |-> <<build_connect(name)>>,
          calls |-> <<on_connect_result(TRUE, None)>>]
    ELSE [ok |-> FALSE, raised |-> FALSE, sock |-> "closed",
          written |-> <<build_connect(name)>>,
          calls |-> <<on_connect_result(FALSE,
                        GetOr(line.rec, "error", "unknown error"))>>]

\* the user interface calls connect only while the client is not running
\* (chat_console_ui.py line 115)
Connect(name, transport, line) ==
    /\ ~running
    /\ connects < MaxConnects
    /\ connects' = connects + 1
    /\ LET r == connect(name, transport, line) IN
        /\ running' = r.ok
        /\ receivers' = IF r.ok THEN receivers + 1 ELSE receivers
        /\ pingers' = IF r.ok THEN pingers + 1 ELSE pingers
        /\ sock' = r.sock
        /\ calls' = r.calls
        /\ cwritten' = r.written
        /\ craised' = r.raised
        /\ notified' = IF r.ok THEN 0 ELSE notified
        /\ stale' = IF r.ok THEN pingers ELSE stale
    /\ op' = "connect"
    /\ UNCHANGED <<srvvars, fifovars, lockvars, uivars>>

\* the actions of the six send operations
SendKinds == {ACTION_MESSAGE} \cup FileActions

SendPayload(kind, to) ==
    IF kind = ACTION_MESSAGE THEN build_message(to, "hi")
    ELSE build_file(kind, to)

\* (mutant) a send operation without `if not self.running: return`
send_Unguarded(run, payload, sendok) ==
    IF sendok
    THEN [written |-> <<payload>>, calls |-> << >>]
    ELSE [written |-> << >>, calls |-> <<on_error("Send error")>>]

\* lines 102-186: send_message and send_file_*: nothing when not running;
\* otherwise the record is written, or the failure goes to on_error
send(run, payload, sendok) ==
    IF ~run
    THEN [written |-> << >>, calls |-> << >>]
    ELSE IF sendok
    THEN [written |-> <<payload>>, calls |-> << >>]
    ELSE [written |-> << >>, calls |-> <<on_error("Send error")>>]

\* one of send_message, send_file_request, ... is called; `ok` is whether
\* building and sending the record will work
Send(kind, to, ok) ==
    /\ LET r == send(running, SendPayload(kind, to), ok /\ sock = "open") IN
        /\ cwritten' = r.written
        /\ calls' = r.calls
    /\ craised' = FALSE
    /\ op' = kind
    /\ UNCHANGED <<running, sock, receivers, pingers, connects, notified,
                   stale>>
    /\ UNCHANGED <<srvvars, fifovars, lockvars, uivars>>

\* lines 188-206: disconnect()
Disconnect(ok) ==
    /\ IF ~running
       THEN /\ cwritten' = << >>
            /\ UNCHANGED <<running, sock>>
       ELSE /\ cwritten' = IF ok /\ sock = "open"
                           THEN <<build_disconnect>> ELSE << >>
            /\ running' = FALSE
            /\ sock' = "closed"
    /\ calls' = << >>
    /\ craised' = FALSE
    /\ op' = "disconnect"
    /\ UNCHANGED <<receivers, pingers, connects, notified, stale>>
    /\ UNCHANGED <<srvvars, fifovars, lockvars, uivars>>

\* --------------------------------------------------------- _receive_loop
\* readline raised (connection reset, socket closed under the reader)
ReadError == [kind |-> "error"]

\* base64 text: the encoding of a byte string, or text that b64decode
\* rejects (incorrect padding)
b64encode(bytes) == [valid |-> TRUE, bytes |-> bytes]
BadBase64 == [valid |-> FALSE]

\* line 272: base64.b64decode(msg.get("data")); a missing `data` is None and
\* raises TypeError, rejected text raises binascii.Error
b64decode(rec) ==
    IF "data" \in DOMAIN rec /\ rec.data.valid
    THEN [ok |-> TRUE, data |-> rec.data.bytes]
    ELSE [ok |-> FALSE, data |-> << >>]

\* the callbacks of the receive loop
on_message_received(sender, text) ==
    [cb |-> "on_message_received", sender |-> sender, text |-> text]
on_user_list_updated(users) == [cb |-> "on_user_list_updated", users |-> users]
on_file_request(sender, filename, filesize, filetype) ==
    [cb |-> "on_file_request", sender |-> sender, filename |-> filename,
     filesize |-> filesize, filetype |-> filetype]
on_file_accept(sender, filename) ==
    [cb |-> "on_file_accept", sender |-> sender, filename |-> filename]
on_file_cancel(sender, filename, reason) ==
    [cb |-> "on_file_cancel", sender |-> sender, filename |-> filename,
     reason |-> reason]
on_file_data(sender, filename, data, is_last_chunk) ==
    [cb |-> "on_file_data", sender |-> sender, filename |-> filename,
     data |-> data, is_last_chunk |-> is_last_chunk]
on_file_complete(sender, filename) ==
    [cb |-> "on_file_complete", sender |-> sender, filename |-> filename]

\* a file-transfer record as it arrives (protocol.py build_file_*)
FileRecord(action, frm, filename) ==
    [action |-> action, from |-> frm, to |-> "b", filename |-> filename]

\* the records the receive loop may read: the three records of the server,
\* the five file-transfer records (a data record with a payload that
\* decodes, with one that does not, and without payload), and records whose
\* action the loop has no branch for (a late connect-response, an unknown
\* action, no action at all)
InboundRecords ==
    {[action |-> ACTION_MESSAGE, from |-> "a", message |-> "hi"],
     build_user_list({"a", "b"}),
     build_error("unknown action"),
     [action |-> ACTION_FILE_REQUEST, from |-> "a", to |-> "b",
      filename |-> "f", filesize |-> 3, filetype |-> "text"],
     FileRecord(ACTION_FILE_ACCEPT, "a", "f"),
     [action |-> ACTION_FILE_CANCEL, from |-> "a", to |-> "b",
      filename |-> "f", reason |-> "no"],
     FileRecord(ACTION_FILE_CANCEL, "a", "f"),
     FileRecord(ACTION_FILE_COMPLETE, "a", "f"),
     FileRecord(ACTION_FILE_DATA, "a", "f"),
     build_connect_response_ok,
     [action |-> "bogus"],
     [status |-> "ok"]}
    \cup {[action |-> ACTION_FILE_DATA, from |-> "a", to |-> "b",
           filename |-> "f", chunk_index |-> 0, data |-> d,
           is_last_chunk |-> l] :
            d \in {b64encode(<<1, 2>>), BadBase64}, l \in BOOLEAN}

InboundLines ==
    {EOF, Malformed, JsonArray, ReadError}
    \cup {JsonObject(r) : r \in InboundRecords}

\* (mutant) a loop without the branch for user lists
dispatch_NoRoster(msg) ==
    LET action == Get(msg, "action") IN
    IF action = ACTION_MESSAGE
    THEN <<on_message_received(Get(msg, "from"), Get(msg, "message"))>>
    ELSE IF action = ACTION_ERROR
    THEN <<on_error(GetOr(msg, "error", "unknown"))>>
    ELSE << >>

\* lines 230-282: the callbacks one record invokes, in order
dispatch(msg) ==
    LET action == Get(msg, "action") IN
    IF action = ACTION_MESSAGE
    THEN <<on_message_received(Get(msg, "from"), Get(msg, "message"))>>
    ELSE IF action = ACTION_USER_LIST
    THEN <<on_user_list_updated(GetOr(msg, "users", {}))>>
    ELSE IF action = ACTION_ERROR
    THEN <<on_error(GetOr(msg, "error", "unknown"))>>
    ELSE IF action = ACTION_FILE_REQUEST
    THEN <<on_file_request(Get(msg, "from"), Get(msg, "filename"),
                           Get(msg, "filesize"), Get(msg, "filetype"))>>
    ELSE IF action = ACTION_FILE_ACCEPT
    THEN <<on_file_accept(Get(msg, "from"), Get(msg, "filename"))>>
    ELSE IF action = ACTION_FILE_CANCEL
    THEN <<on_file_cancel(Get(msg, "from"), Get(msg, "filename"),
                          GetOr(msg, "reason", ""))>>
    ELSE IF action = ACTION_FILE_DATA
    THEN IF b64decode(msg).ok
         THEN <<on_file_data(Get(msg, "from"), Get(msg, "filename"),
                             b64decode(msg).data,
                             GetOr(msg, "is_last_chunk", FALSE))>>
         ELSE <<on_error("Decode file data error")>>
    ELSE IF action = ACTION_FILE_COMPLETE
    THEN <<on_file_complete(Get(msg, "from"), Get(msg, "filename"))>>
    ELSE << >>

\* lines 220-285: one iteration of the loop on the line the read gives, up
\* to the next test of `while self.running` (run): the callbacks invoked,
\* whether the thread ends, and whether it ends with an exception
receive_loop(run, line) ==
    IF line.kind = "eof"
    THEN [calls |-> <<on_disconnected>>, ends |-> TRUE, raised |-> FALSE]
    ELSE IF line.kind = "array"
    THEN \* msg.get raises AttributeError outside the try block
         [calls |-> << >>, ends |-> TRUE, raised |-> TRUE]
    ELSE LET cbs == IF line.kind = "object" THEN dispatch(line.rec)
                    ELSE << >>   \* except Exception: continue
         IN IF run
            THEN [calls |-> cbs, ends |-> FALSE, raised |-> FALSE]
            ELSE [calls |-> cbs \o <<on_disconnected>>, ends |-> TRUE,
                  raised |-> FALSE]

\* how many of the callbacks cs are on_disconnected
Notifications(cs) ==
    Cardinality({i \in DOMAIN cs : cs[i] = on_disconnected})

\* a receive loop gets the outcome of its readline: any line while the
\* socket is open, end of stream or an error once it has been closed
ReceiveLine(line) ==
    /\ receivers > 0
    /\ sock # "open" => line \in {EOF, ReadError}
    /\ LET r == receive_loop(running, line) IN
        /\ calls' = r.calls
        /\ receivers' = IF r.ends THEN receivers - 1 ELSE receivers
        /\ running' = IF r.ends /\ ~r.raised THEN FALSE ELSE running
        /\ craised' = r.raised
        /\ notified' = notified + Notifications(r.calls)
    /\ cwritten' = << >>
    /\ op' = "receiver"
    /\ UNCHANGED <<sock, pingers, connects, stale>>
    /\ UNCHANGED <<srvvars, fifovars, lockvars, uivars>>

\* lines 292-302: a ping loop wakes from its sleep, sends the ping (without
\* looking at `running` again) and ends if the send failed or if `running`
\* is False at the top of the loop
PingerWake(ok) ==
    /\ pingers > 0
    /\ LET sendok == ok /\ sock = "open"
           exits == ~sendok \/ ~running
       IN /\ cwritten' = IF sendok THEN <<build_ping>> ELSE << >>
          /\ pingers' = IF exits THEN pingers - 1 ELSE pingers
          /\ running' = IF exits THEN FALSE ELSE running
          /\ calls' = IF exits THEN <<on_disconnected>> ELSE << >>
          /\ notified' = IF exits THEN notified + 1 ELSE notified
          \* the loop that wakes is one of an earlier session or the one of
          \* the present session; the code is the same for both
          /\ \E earlier \in BOOLEAN :
               /\ IF earlier THEN stale > 0 ELSE pingers > stale
               /\ stale' = IF earlier /\ exits THEN stale - 1 ELSE stale
               /\ op' = IF earlier THEN "pinger_earlier" ELSE "pinger"
    /\ craised' = FALSE
    /\ UNCHANGED <<sock, receivers, connects>>
    /\ UNCHANGED <<srvvars, fifovars, lockvars, uivars>>

ClientNext ==
    \/ \E name \in {"a", "b"}, transport \in Transports, line \in ReplyLines :
            Connect(name, transport, line)
    \/ \E kind \in SendKinds, to \in {"a", "b"}, ok \in BOOLEAN :
            Send(kind, to, ok)
    \/ \E ok \in BOOLEAN : Disconnect(ok)
    \/ \E line \in InboundLines : ReceiveLine(line)
    \/ \E ok \in BOOLEAN : PingerWake(ok)

ClientSpec == Init /\ [][ClientNext]_vars

\* ============================================== file transfer, receiving
\* chat_console_ui.py (chat_ui.py has the same handlers, run by root.after).
\* The handlers are those of the user interface of a connected client.

\* (mutant) a lookup that finds the transfer by the file name alone
get_ByName(rf, key) ==
    IF \E k \in DOMAIN rf : k[2] = key[2]
    THEN rf[CHOOSE k \in DOMAIN rf : k[2] = key[2]]
    ELSE NoPath

\* line 182: self._receiving_files.get(key)
get(rf, key) == IF key \in DOMAIN rf THEN rf[key] ELSE NoPath

\* lines 56-78 and 158-160: a file request arrives and the user answers it:
\* "y" with a directory, "y" without one ("nodir"), or "n"
OnFileRequest(sender, filename, answer) ==
    LET key == <<sender, filename>> IN
    /\ IF answer = "y"
       THEN /\ receiving_files' =
                 [k \in DOMAIN receiving_files \cup {key} |->
                    IF k = key THEN SavePath(filename)
                    ELSE receiving_files[k]]
            /\ usent' = <<[call |-> "send_file_accept", to |-> sender,
                           filename |-> filename]>>
            /\ got' = [got EXCEPT ![key] = << >>]
            /\ cancelled' = cancelled \ {<<"recv", sender, filename>>}
            /\ printed' = <<"accepted", sender, filename>>
       ELSE /\ usent' = <<[call |-> "send_file_cancel", to |-> sender,
                           filename |-> filename,
                           reason |-> IF answer = "n" THEN "User refused."
                                      ELSE "User canceled the file selection"]>>
            /\ printed' = <<"refused", sender, filename>>
            /\ UNCHANGED <<receiving_files, got, cancelled>>
    /\ UNCHANGED <<disk, pending_file_send, chunkers, finished, requested>>
    /\ UNCHANGED <<srvvars, fifovars, lockvars, clivars>>

\* lines 180-189: _on_file_data
OnFileData(sender, filename, data, is_last_chunk) ==
    LET key == <<sender, filename>>
        save_path == get(receiving_files, key)
    IN
    /\ IF save_path = NoPath
       THEN /\ printed' = <<"unknown_chunk", sender, filename>>
            /\ UNCHANGED <<receiving_files, disk, got>>
       ELSE /\ Len(disk[save_path]) + Len(data) <= MaxOut
            /\ disk' = [disk EXCEPT ![save_path] = @ \o data]
            /\ receiving_files' =
                 IF is_last_chunk
                 THEN [k \in DOMAIN receiving_files \ {key} |->
                         receiving_files[k]]
                 ELSE receiving_files
            /\ got' = [got EXCEPT ![key] =
                         IF is_last_chunk THEN << >> ELSE @ \o data]
            /\ printed' = <<"", sender, filename>>
    /\ usent' = << >>
    /\ UNCHANGED <<cancelled, pending_file_send, chunkers, finished,
                   requested>>
    /\ UNCHANGED <<srvvars, fifovars, lockvars, clivars>>

\* is the transfer with this peer in a non-terminal state on the sending
\* side: requested and not answered, or being sent
Sending(peer, filename) ==
    \/ /\ pending_file_send # NoPending
       /\ pending_file_send[1] = peer
       /\ pending_file_send[3] = filename
    \/ \E i \in DOMAIN chunkers :
         chunkers[i].to = peer /\ chunkers[i].filename = filename

\* lines 174-178: _on_file_cancel prints; `cancelled` remembers the cancel
\* for a transfer that is accepted here or that is being sent from here
OnFileCancel(sender, filename) ==
    /\ printed' = <<"cancelled", sender, filename>>
    /\ cancelled' = cancelled
         \cup (IF <<sender, filename>> \in DOMAIN receiving_files
               THEN {<<"recv", sender, filename>>} ELSE {})
         \cup (IF Sending(sender, filename)
               THEN {<<"send", sender, filename>>} ELSE {})
    /\ usent' = << >>
    /\ UNCHANGED <<receiving_files, disk, got, pending_file_send, chunkers,
                   finished, requested>>
    /\ UNCHANGED <<srvvars, fifovars, lockvars, clivars>>

\* lines 191-192: _on_file_complete prints
OnFileComplete(sender, filename) ==
    /\ printed' = <<"completed", sender, filename>>
    /\ usent' = << >>
    /\ UNCHANGED <<receiving_files, disk, got, cancelled, pending_file_send,
                   chunkers, finished, requested>>
    /\ UNCHANGED <<srvvars, fifovars, lockvars, clivars>>

ReceiverNext ==
    \/ \E sender \in Peers, filename \in RecvNames,
          answer \in {"y", "n", "nodir"} :
            OnFileRequest(sender, filename, answer)
    \/ \E sender \in Peers, filename \in RecvNames, data \in Payloads,
          is_last_chunk \in BOOLEAN :
            OnFileData(sender, filename, data, is_last_chunk)
    \/ \E sender \in Peers, filename \in RecvNames :
            OnFileCancel(sender, filename)
    \/ \E sender \in Peers, filename \in RecvNames :
            OnFileComplete(sender, filename)

ReceiverSpec == Init /\ [][ReceiverNext]_vars

\* ================================================ file transfer, sending
\* lines 146-156: _send_file remembers the offer and sends the request
SendFile(to_user, file_path) ==
    /\ pending_file_send' = <<to_user, file_path, basename(file_path)>>
    /\ usent' = <<[call |-> "send_file_request", to |-> to_user,
                   file_path |-> file_path]>>
    /\ cancelled' = cancelled \ {<<"send", to_user, basename(file_path)>>}
    /\ printed' = <<"sending", to_user, basename(file_path)>>
    /\ requested' = requested \cup {<<to_user, basename(file_path)>>}
    /\ UNCHANGED <<receiving_files, disk, got, chunkers, finished>>
    /\ UNCHANGED <<srvvars, fifovars, lockvars, clivars>>

\* (mutant) an accept that is matched on the file name alone
Offered_AnySender(pending, sender, filename) ==
    /\ pending # NoPending
    /\ pending[3] = filename

\* lines 164-165: the accept is for the pending offer
Offered(pending, sender, filename) ==
    /\ pending # NoPending
    /\ pending[1] = sender
    /\ pending[3] = filename

\* lines 162-172: _on_file_accept starts _send_file_chunks for the pending
\* offer the accept matches
OnFileAccept(sender, filename) ==
    /\ printed' = <<"peer_accepted", sender, filename>>
    /\ IF Offered(pending_file_send, sender, filename)
       THEN /\ Len(chunkers) < MaxThreads
            /\ chunkers' = Append(chunkers,
                 [to |-> pending_file_send[1], path |-> pending_file_send[2],
                  filename |-> filename, tell |-> 0, chunk_index |-> 0,
                  sent |-> << >>])
            /\ pending_file_send' = NoPending
       ELSE UNCHANGED <<chunkers, pending_file_send>>
    /\ usent' = << >>
    /\ requested' = requested \ {<<sender, filename>>}
    /\ UNCHANGED <<receiving_files, disk, got, cancelled, finished>>
    /\ UNCHANGED <<srvvars, fifovars, lockvars, clivars>>

\* line 209: f.read(chunk_size) at offset tell
read(path, tell, size) ==
    SubSeq(FileBytes(path), tell + 1,
           IF tell + size <= getsize(path) THEN tell + size ELSE getsize(path))

\* (mutant) every chunk is marked as the last one
is_last_Always(tell, path) == TRUE

\* line 212: is_last = f.tell() == os.path.getsize(file_path)
is_last(tell, path) == tell = getsize(path)

\* lines 208-215: one iteration of the loop of _send_file_chunks of thread
\* i, or the send_file_complete after the loop
ChunkStep(i) ==
    /\ i \in DOMAIN chunkers
    /\ LET t == chunkers[i]
           data == read(t.path, t.tell, ChunkSize)
           tell == t.tell + Len(data)
           record ==
             IF data = << >>
             THEN [call |-> "send_file_complete", to |-> t.to,
                   filename |-> t.filename]
             ELSE [call |-> "send_file_data", to |-> t.to,
                   filename |-> t.filename, chunk_index |-> t.chunk_index,
                   data |-> data, is_last |-> is_last(tell, t.path)]
       IN /\ usent' = <<record>>
          /\ IF data = << >>
             THEN /\ chunkers' = [j \in 1..(Len(chunkers) - 1) |->
                                   IF j < i THEN chunkers[j]
                                   ELSE chunkers[j + 1]]
                  /\ finished' = <<[t EXCEPT !.sent = Append(@, record)]>>
             ELSE /\ chunkers' = [chunkers EXCEPT ![i] =
                       [t EXCEPT !.tell = tell,
                                 !.chunk_index = @ + 1,
                                 !.sent = Append(@, record)]]
                  /\ finished' = finished
          /\ printed' = <<"", t.to, t.filename>>
    /\ UNCHANGED <<receiving_files, disk, got, cancelled, pending_file_send,
                   requested>>
    /\ UNCHANGED <<srvvars, fifovars, lockvars, clivars>>

SenderNext ==
    \/ \E to_user \in Targets, file_path \in SrcPaths :
            SendFile(to_user, file_path)
    \/ \E sender \in Peers, filename \in SrcNames :
            OnFileAccept(sender, filename)
    \/ \E sender \in Peers, filename \in SrcNames :
            OnFileCancel(sender, filename)
    \/ \E i \in 1..MaxThreads : ChunkStep(i)

SenderSpec == Init /\ [][SenderNext]_vars

\* ================================================================ claims
\* the worker of c is past the handshake (the connect-response is written)
Handshaken(c) == pc[c] \notin {"accept", "ret"}

\* c is an ACTIVE connection: its worker is in the loop and its session is
\* in the registry
Active(c) == pc[c] = "loop" /\ Registered(c)

\* the handles of the connections that got the ok response and whose
\* session has not been removed
OkHandles ==
    {username[c] : c \in {d \in Conns : resp[d] = build_connect_response_ok
                                         /\ gone[d] = "no"}}

\* C1 (Uniqueness): of the connections that ask for one handle, the one that
\* register_client puts into the registry receives the ok connect-response;
\* every other one receives the error 'username already taken' and is never
\* registered; two connections registered under one handle never hold it
\* together.
C1_Uniqueness ==
    /\ \A c \in Conns : Handshaken(c) =>
        /\ username[c] # None => resp[c] = build_connect_response_ok
        /\ (username[c] = None /\ err[c] = ErrTaken) =>
              /\ resp[c] = build_connect_response_err(ErrTaken)
              /\ gone[c] = "no"
              /\ ~Registered(c)
    /\ \A c, d \in Conns :
        (c # d /\ username[c] # None /\ username[c] = username[d]) =>
            (gone[c] # "no" \/ gone[d] # "no")

\* C2 (Roster correctness): whenever no connection is between its insertion
\* and its connect-response, the handles of the registry (the list
\* broadcast_user_list sends) are exactly the handles of the connections
\* that got the ok response and have not been removed.
C2_RosterCorrect ==
    (\A c \in Conns : pc[c] # "ret") => DOMAIN clients = OkHandles

\* C3 (Sender stamping): every message record a step writes to a connection
\* is written by the worker of a connection c handling a message record, and
\* carries from = the handle c registered under, whatever `from` the record
\* of the client holds.
C3_SenderStamping ==
    [][/\ \A d \in sent' :
            d[2].action = ACTION_MESSAGE =>
                \E c \in Conns, line \in LoopRecords :
                    /\ HandleRecord(c, line)
                    /\ line.action = ACTION_MESSAGE
                    /\ ~Falsy(username[c])
                    /\ d[2].from = username[c]
       /\ \A c \in Conns, line \in LoopRecords :
            (/\ HandleRecord(c, line)
             /\ line.action = ACTION_MESSAGE
             /\ ~Falsy(line.to) /\ ~Falsy(line.message)
             /\ line.to \in DOMAIN clients
             /\ open[clients[line.to].conn])
            => sent' = {<<clients[line.to].conn,
                          [action |-> ACTION_MESSAGE, from |-> username[c],
                           message |-> line.message]>>}
      ]_vars

\* a message of connection c has just been relayed to another connection
C3_Witness ==
    \E d \in sent : \E c \in Conns :
        /\ d[2].action = ACTION_MESSAGE
        /\ c # d[1]
        /\ Active(c)
        /\ d[2].from = username[c]

\* C4 (Routing error): a well-formed message of an ACTIVE connection to a
\* handle that is not in the registry writes exactly one record, the error
\* naming the missing user, to the sender; the registry is unchanged and the
\* sender stays ACTIVE.
C4_RoutingError ==
    [][\A c \in Conns, line \in LoopRecords :
        (/\ HandleRecord(c, line)
         /\ Active(c)
         /\ line.action = ACTION_MESSAGE
         /\ ~Falsy(line.to) /\ ~Falsy(line.message)
         /\ line.to \notin DOMAIN clients)
        => /\ sent' = {<<c, build_error(<<"user ", line.to, " not found">>)>>}
           /\ clients' = clients
           /\ open' = open
           /\ Active(c)'
      ]_vars

\* an ACTIVE connection has just been told that its recipient is missing
C4_Witness ==
    \E c \in Conns, t \in {"a", "b"} :
        /\ Active(c)
        /\ t \notin DOMAIN clients
        /\ sent = {<<c, build_error(<<"user ", t, " not found">>)>>}

\* C5 (File-transfer relay): a file-transfer record of an ACTIVE connection
\* is forwarded once to the connection registered under `to`, with from =
\* the handle of the sender, and answered with the error naming the missing
\* user when `to` is not registered.
C5_FileRelay ==
    [][\A c \in Conns, line \in LoopRecords :
        (/\ HandleRecord(c, line)
         /\ Active(c)
         /\ line.action \in FileActions)
        => IF line.to \in DOMAIN clients
           THEN /\ Cardinality(sent') = 1
                /\ \A d \in sent' :
                    /\ d[1] = clients[line.to].conn
                    /\ d[2].action = line.action
                    /\ d[2].from = username[c]
           ELSE sent' = {<<c, build_error(<<"user ", line.to, " not found">>)>>}
      ]_vars

\* the heartbeat of the session registered under h is older than the timeout
TimedOut(h) ==
    h \in DOMAIN clients /\ now - clients[h].last_ping > Timeout

\* C6 (Cleanup on every trigger): (i) a disconnect record and (ii) the end
\* of the stream each take the worker to its cleanup, and a worker in its
\* cleanup leads to a state where its handle is absent from the registry;
\* (iii) a sweep removes every session whose heartbeat is older than the
\* timeout, and a session in that condition does not stay in it: it is
\* removed (or, if a ping arrives before the sweep, no longer timed out).
C6_CleanupOnEveryTrigger ==
    /\ [][/\ \A c \in Conns :
              \A line \in {EOF, Json(ACTION_DISCONNECT, None, None, None, None)} :
                 HandleRecord(c, line) => pc'[c] = "cleanup"
          /\ Sweep => \A h \in DOMAIN clients :
                 now - clients[h].last_ping > Timeout => h \notin DOMAIN clients'
         ]_vars
    /\ \A c \in Conns :
          (pc[c] = "cleanup") ~> (username[c] \notin DOMAIN clients)
    /\ \A h \in Usernames :
          TimedOut(h) ~> (h \notin DOMAIN clients \/ ~TimedOut(h))

\* one connection has left by its own cleanup, another by the sweep, and
\* neither handle is in the registry
C6_Witness ==
    \E c, d \in Conns :
        /\ pc[c] = "done" /\ gone[c] = "self"
        /\ username[c] \notin DOMAIN clients
        /\ gone[d] = "sweep"
        /\ username[d] \notin DOMAIN clients

\* C7 (remove is idempotent): remove_client on a handle that is not in the
\* registry raises nothing, changes neither the registry nor any socket, and
\* the worker goes on to its broadcast; removing twice gives the registry of
\* removing once.
C7_RemoveIdempotent ==
    /\ [](\A h \in Usernames :
            LET r1 == remove_client(clients, h)
                r2 == remove_client(r1.reg, h)
            IN  r2.reg = r1.reg /\ ~r2.raised /\ r2.closed = {})
    /\ [][\A c \in Conns :
            (RemoveClient(c) /\ username[c] \notin DOMAIN clients)
            => /\ clients' = clients
               /\ open' = open
               /\ pc'[c] = "rm_bcast"
         ]_vars

\* the worker of a session the sweep had removed has run remove_client again
C7_Witness ==
    \E c \in Conns :
        /\ pc[c] = "rm_bcast"
        /\ gone[c] = "sweep"
        /\ username[c] \notin DOMAIN clients

\* C8 as stated (Liveness eviction): a sweep removes every session whose
\* heartbeat is older than the timeout and closes its transport, and the
\* roster the sweeper broadcasts next holds none of the removed handles.
C8_EvictionOriginal ==
    [][/\ Sweep => \A h \in DOMAIN clients :
            now - clients[h].last_ping > Timeout =>
                /\ h \notin DOMAIN clients'
                /\ ~open'[clients[h].conn]
       /\ SweepBroadcast => \A d \in sent' : d[2].users \cap removed = {}
      ]_vars

\* C8 as amended: ... and the roster the sweeper broadcasts next holds a
\* removed handle only if another connection has registered that handle
\* since; the removed connection is not in the registry and gets no roster.
C8_Eviction ==
    [][/\ Sweep => \A h \in DOMAIN clients :
            now - clients[h].last_ping > Timeout =>
                /\ h \notin DOMAIN clients'
                /\ ~open'[clients[h].conn]
                /\ h \in removed'
       /\ SweepBroadcast => \A d \in sent' :
            /\ gone[d[1]] = "no"
            /\ d[2].users = DOMAIN clients
            /\ \A h \in d[2].users \cap removed : gone[clients[h].conn] = "no"
       /\ \A c \in Conns : gone[c] = "sweep" => ~Registered(c)' /\ ~open'[c]
      ]_vars

\* a roster without the handle of an evicted connection has just been
\* written to another connection
C8_Witness ==
    \E c \in Conns : \E d \in sent :
        /\ gone[c] = "sweep"
        /\ ~open[c]
        /\ d[1] # c
        /\ d[2].action = ACTION_USER_LIST
        /\ username[c] \notin d[2].users

\* C9 (No premature eviction): the sweep removes a session only when its
\* heartbeat is at least timeout/2 old; a ping of a registered connection
\* sets the heartbeat of its session to the current time, and the heartbeat
\* of a session never moves back.  So a session whose pings are handled less
\* than timeout/2 apart is never removed by the sweep.
C9_NoPrematureEviction ==
    [][/\ \A c \in Conns :
            (gone[c] = "no" /\ gone'[c] = "sweep") =>
                /\ Registered(c)
                /\ 2 * (now - clients[username[c]].last_ping) >= Timeout
       /\ \A c \in Conns :
            (/\ HandleRecord(c, Json(ACTION_PING, None, None, None, None))
             /\ Registered(c))
            => clients'[username[c]].last_ping = now
       /\ \A h \in DOMAIN clients \cap DOMAIN clients' :
            clients'[h].conn = clients[h].conn =>
                clients'[h].last_ping >= clients[h].last_ping
      ]_vars

\* after more than the timeout, a connection whose heartbeat is younger than
\* timeout/2 is still registered while another one has been evicted
C9_Witness ==
    \E c, d \in Conns :
        /\ Active(c)
        /\ now > Timeout
        /\ clients[username[c]].last_ping > 0
        /\ 2 * (now - clients[username[c]].last_ping) < Timeout
        /\ gone[d] = "sweep"

\* C10 (One roster broadcast per sweep): the broadcast of the sweeper is the
\* only roster the evictions of a sweep cause; the cleanup of the worker of
\* an evicted session writes no further roster to the remaining sessions.
C10_OneBroadcastPerSweep ==
    [][/\ (Sweep /\ removed' # {}) => spc' = "bcast"
       /\ \A c \in Conns :
            (RemoveBroadcast(c) /\ gone[c] = "sweep") => sent' = {}
      ]_vars

\* C11 (CLOSED runs exactly once): the session of a connection is removed
\* once; when the sweep has done the cleanup of a connection (removed its
\* handle, closed its transport, and broadcasts the roster), the worker of
\* that connection removes nothing more, closes nothing more and writes no
\* further roster.
C11_CleanupOnce ==
    [][\A c \in Conns :
         /\ gone[c] # "no" => gone'[c] = gone[c]
         /\ (gone[c] = "sweep" /\ RemoveClient(c))
                => clients' = clients /\ open' = open
         /\ (gone[c] = "sweep" /\ RemoveBroadcast(c)) => sent' = {}
      ]_vars

\* C12 (Registration failure is terminal and side-effect free): a worker
\* that takes the error branch after register_client writes an error-status
\* connect-response with a reason, only that record, closes the connection
\* and ends; register_client has not changed the registry for it.
C12_RegistrationFailure ==
    [][/\ \A c \in Conns : \A line \in FirstLines :
            (Register(c, line) /\ Falsy(username'[c])) => clients' = clients
       /\ \A c \in Conns :
            (Respond(c) /\ Falsy(username[c])) =>
                /\ err[c] # ErrNone
                /\ sent' = {<<c, build_connect_response_err(err[c])>>}
                /\ ~open'[c]
                /\ pc'[c] = "done"
                /\ clients' = clients
                /\ ~Registered(c)
      ]_vars

\* C13 (Handles are non-empty): no key of the registry is the empty string.
C13_HandlesNonEmpty == \A h \in DOMAIN clients : h # ""

\* the actions handle_client has a branch for
Recognized == {ACTION_PING, ACTION_MESSAGE, ACTION_DISCONNECT}

\* C14 (Unknown action): a record of an ACTIVE connection whose action
\* handle_client has no branch for (file-transfer actions aside) is answered
\* with exactly one record, the error 'unknown action', to the sender; the
\* registry and the sockets are unchanged and the connection stays ACTIVE.
C14_UnknownAction ==
    [][\A c \in Conns : \A line \in LoopRecords :
         (/\ HandleRecord(c, line)
          /\ Active(c)
          /\ line.action \notin Recognized \cup FileActions)
         => /\ sent' = {<<c, build_error(<<"unknown action">>)>>}
            /\ clients' = clients
            /\ open' = open
            /\ Active(c)'
      ]_vars

\* an ACTIVE connection has just been answered 'unknown action'
C14_Witness ==
    \E c \in Conns :
        /\ Active(c)
        /\ open[c]
        /\ sent = {<<c, build_error(<<"unknown action">>)>>}

\* C15 (Malformed record): a line of an ACTIVE connection that is no JSON
\* is answered with an error record to the sender, and the connection stays
\* open and registered.
C15_MalformedRecord ==
    [][\A c \in Conns :
         (HandleRecord(c, Malformed) /\ Active(c))
         => /\ \E d \in sent' : d[1] = c /\ d[2].action = ACTION_ERROR
            /\ open'[c]
            /\ Active(c)'
      ]_vars

\* no operation is pending: every worker is waiting for a line of its peer
\* (or has ended) and the sweeper sleeps
Quiescent ==
    /\ \A c \in Conns : pc[c] \in {"accept", "loop", "done"}
    /\ spc = "sleep"

\* C17 (Roster broadcast on membership change): once no operation is
\* pending, the last user list written to each ACTIVE connection is the set
\* of the registered handles.
C17_RosterFollowsMembership ==
    Quiescent =>
        \A c \in Conns : Active(c) => roster[c] = <<DOMAIN clients>>

\* the message records in the stream of connection r that carry handle h
FromHandle(r, h) ==
    SelectSeq(inbox[r], LAMBDA m : m.from = h)

\* C16 (Per-pair FIFO): the message records from one sender in the stream
\* of one recipient are in the order in which the sender wrote them, none
\* twice; each well-formed message the worker reads for a registered
\* recipient is appended to that recipient's stream, once, and nothing else
\* is appended anywhere.
C16_PerPairFifo ==
    /\ [](\A r \in Conns : \A h \in {"a", "b"} :
            LET q == FromHandle(r, h) IN
            \A i, j \in 1..Len(q) :
                i < j => Serial(q[i].message) < Serial(q[j].message))
    /\ [][\A c \in Conns :
            (Relay(c) /\ Active(c)) =>
                LET line == Head(wire[c]) IN
                IF /\ line.kind = "json"
                   /\ line.action = ACTION_MESSAGE
                   /\ line.to \in DOMAIN clients
                   /\ open[clients[line.to].conn]
                THEN inbox' = [inbox EXCEPT ![clients[line.to].conn] =
                                 Append(@, [action |-> ACTION_MESSAGE,
                                            from |-> username[c],
                                            message |-> line.message])]
                ELSE inbox' = inbox
         ]_vars

\* a recipient holds two messages of one sender, in the order written, and
\* a message of another sender among them
C16_Witness ==
    \E r \in Conns : \E i, j, k \in 1..Len(inbox[r]) :
        /\ i < j
        /\ inbox[r][i].from = inbox[r][j].from
        /\ Serial(inbox[r][i].message) < Serial(inbox[r][j].message)
        /\ inbox[r][k].from # inbox[r][i].from

\* the threads inside a registry operation
InRegistry == {t \in Threads : at[t].phase = "in"}

\* C18 (Registry mutual exclusion): a thread inside a registry operation
\* holds clients_lock, and no two threads are inside a registry operation at
\* the same time.
C18_RegistryMutex ==
    /\ \A t \in InRegistry : lock = {t}
    /\ Cardinality(InRegistry) <= 1

\* a worker is inside a registry operation while another worker and the
\* sweeper wait for the lock
C18_Witness ==
    \E t \in Conns : \E u \in Conns \ {t} :
        /\ at[t].phase = "in"
        /\ at[u].phase = "wait"
        /\ at[0].phase = "wait"

\* C19 (Handshake atomicity): a connect that does not end with an ok-status
\* connect-response leaves `running` False, starts neither loop, and calls
\* on_connect_result exactly once, with success False.
C19_HandshakeAtomicity ==
    [][\A name \in {"a", "b"}, transport \in Transports, line \in ReplyLines :
         (/\ Connect(name, transport, line)
          /\ ~(/\ transport = "reply"
               /\ line.kind = "object"
               /\ line.rec = [action |-> "connect", status |-> "ok"]))
         => /\ running' = FALSE
            /\ receivers' = receivers
            /\ pingers' = pingers
            /\ Len(calls') = 1
            /\ calls'[1].cb = "on_connect_result"
            /\ calls'[1].success = FALSE
      ]_vars

\* C20 (Inactive client sends nothing): a send_message or send_file_* called
\* while `running` is False writes no record, invokes no callback and
\* changes no field of the client.
C20_InactiveSendsNothing ==
    [][\A kind \in SendKinds, to \in {"a", "b"}, ok \in BOOLEAN :
         (Send(kind, to, ok) /\ ~running)
         => /\ cwritten' = << >>
            /\ calls' = << >>
            /\ UNCHANGED <<running, sock, receivers, pingers>>
      ]_vars

\* after a session that was ended by disconnect(), a send operation has been
\* called and has written nothing
C20_Witness ==
    /\ ~running
    /\ sock = "closed"
    /\ connects > 0
    /\ op \in SendKinds
    /\ cwritten = << >>

\* C28 (Handshake ordering): once the (non-empty) handle of a connection is
\* in the registry, nothing is written to that connection before its ok
\* connect-response: no user list and no relayed message of another worker
\* comes between the insertion and the response.
C28_HandshakeOrdering ==
    [][\A d \in sent' :
         (pc[d[1]] = "ret" /\ Registered(d[1]) /\ ~Falsy(username[d[1]]))
         => d[2] = build_connect_response_ok
      ]_vars

\* C29 (Authoritative routing): a relayed message is written only to the
\* connection registered under `to` when it is written, so never to a
\* connection that has been removed from the registry, whatever disconnects
\* and sweeps came before.
C29_AuthoritativeRouting ==
    [][/\ \A d \in sent' :
            d[2].action = ACTION_MESSAGE
            => /\ Registered(d[1])
               /\ \E h \in DOMAIN clients' : clients'[h].conn = d[1]
               /\ gone[d[1]] = "no"
       /\ \A c \in Conns : \A line \in LoopRecords :
            (HandleRecord(c, line) /\ line.action = ACTION_MESSAGE)
            => \A d \in sent' :
                 d[2].action = ACTION_MESSAGE
                 => /\ line.to \in DOMAIN clients
                    /\ d[1] = clients[line.to].conn
      ]_vars

\* a message has just been relayed to the connection that holds a handle
\* which a removed connection held before, while another session is
\* registered too
C29_Witness ==
    \E d \in sent : \E e \in Conns :
        /\ d[2].action = ACTION_MESSAGE
        /\ e # d[1]
        /\ gone[e] # "no"
        /\ username[e] = username[d[1]]

ClientActions ==
    {ACTION_MESSAGE, ACTION_USER_LIST, ACTION_ERROR} \cup FileActions

\* the callbacks a step of a receive loop invoked for the record it read:
\* `calls` without the on_disconnected of a loop that ended after it
Dispatched(cs) ==
    IF cs # << >> /\ cs[Len(cs)] = on_disconnected
    THEN SubSeq(cs, 1, Len(cs) - 1)
    ELSE cs

\* C21 as stated (Client dispatch): for every record the receive loop
\* reads, exactly one callback is invoked, the one of the record's action.
C21_ClientDispatchOriginal ==
    [][\A line \in InboundLines :
         (ReceiveLine(line) /\ line.kind = "object")
         => /\ Len(Dispatched(calls')) = 1
            /\ LET a == Get(line.rec, "action")
                   cb == Dispatched(calls')[1].cb
               IN /\ a = ACTION_MESSAGE => cb = "on_message_received"
                  /\ a = ACTION_USER_LIST => cb = "on_user_list_updated"
                  /\ a = ACTION_ERROR => cb = "on_error"
                  /\ a = ACTION_FILE_REQUEST => cb = "on_file_request"
                  /\ a = ACTION_FILE_ACCEPT => cb = "on_file_accept"
                  /\ a = ACTION_FILE_CANCEL => cb = "on_file_cancel"
                  /\ a = ACTION_FILE_DATA => cb = "on_file_data"
                  /\ a = ACTION_FILE_COMPLETE => cb = "on_file_complete"
      ]_vars

\* C21 (Client dispatch), amended: for every record the receive loop reads
\* whose action is message, user_list, error or one of the five
\* file-transfer actions, exactly one callback is invoked: the one of the
\* action, with the fields of the record, except that a file_transfer_data
\* record whose payload does not decode invokes on_error instead of
\* on_file_data; a record with any other action invokes no callback.
C21_ClientDispatch ==
    [][\A line \in InboundLines :
         (ReceiveLine(line) /\ line.kind = "object")
         => LET r == line.rec
                a == Get(r, "action")
                cs == Dispatched(calls')
            IN /\ a \in ClientActions => Len(cs) = 1
               /\ a \notin ClientActions => cs = << >>
               /\ a = ACTION_MESSAGE
                  => cs[1] = on_message_received(r.from, r.message)
               /\ a = ACTION_USER_LIST
                  => cs[1] = on_user_list_updated(r.users)
               /\ a = ACTION_ERROR => cs[1] = on_error(r.error)
               /\ a = ACTION_FILE_REQUEST
                  => cs[1] = on_file_request(r.from, r.filename, r.filesize,
                                             r.filetype)
               /\ a = ACTION_FILE_ACCEPT
                  => cs[1] = on_file_accept(r.from, r.filename)
               /\ a = ACTION_FILE_CANCEL
                  => /\ cs[1].cb = "on_file_cancel"
                     /\ cs[1].sender = r.from
                     /\ cs[1].filename = r.filename
               /\ a = ACTION_FILE_COMPLETE
                  => cs[1] = on_file_complete(r.from, r.filename)
               /\ (a = ACTION_FILE_DATA /\ "data" \in DOMAIN r
                   /\ r.data.valid)
                  => cs[1] = on_file_data(r.from, r.filename, r.data.bytes,
                                          r.is_last_chunk)
               /\ (a = ACTION_FILE_DATA
                   /\ ~("data" \in DOMAIN r /\ r.data.valid))
                  => cs[1].cb = "on_error"
      ]_vars

\* a receive loop that goes on has just handed a decoded last chunk to
\* on_file_data
C21_Witness ==
    /\ op = "receiver"
    /\ running
    /\ receivers > 0
    /\ calls = <<on_file_data("a", "f", <<1, 2>>, TRUE)>>

\* C27 (Client read failure is a disconnect): when the read of a receive
\* loop fails with an error while the session is active, the loop ends,
\* `running` becomes False and on_disconnected is reported.
C27_ReadFailureDisconnects ==
    [][(ReceiveLine(ReadError) /\ running)
         => /\ receivers' = receivers - 1
            /\ ~running'
            /\ calls' = <<on_disconnected>>
      ]_vars

\* C22 (File reassembly): for a transfer (sender, filename) the receiver
\* has accepted, when the chunk with is_last_chunk arrives after the earlier
\* chunks, the output file equals the concatenation of the payloads that
\* arrived for the transfer, in the order of arrival, and the transfer entry
\* is removed, so that a further chunk is not appended.
C22_FileReassembly ==
    [][\A sender \in Peers : \A filename \in RecvNames :
       \A data \in Payloads :
         (/\ OnFileData(sender, filename, data, TRUE)
          /\ <<sender, filename>> \in DOMAIN receiving_files)
         => /\ disk'[receiving_files[<<sender, filename>>]]
                 = got[<<sender, filename>>] \o data
            /\ <<sender, filename>> \notin DOMAIN receiving_files'
      ]_vars

\* C23 (Unknown-chunk rejection): a data record for a (sender, filename)
\* pair that is not accepted is dropped: no output file changes and the set
\* of accepted transfers is unchanged.
C23_UnknownChunkRejection ==
    [][\A sender \in Peers : \A filename \in RecvNames :
       \A data \in Payloads : \A is_last_chunk \in BOOLEAN :
         (/\ OnFileData(sender, filename, data, is_last_chunk)
          /\ <<sender, filename>> \notin DOMAIN receiving_files)
         => /\ disk' = disk
            /\ receiving_files' = receiving_files
      ]_vars

\* a chunk of a sender whose file is not accepted has just been ignored
\* while the file of the same name of another sender is accepted
C23_Witness ==
    \E sender \in Peers : \E other \in Peers :
        /\ printed = <<"unknown_chunk", sender, "f">>
        /\ <<sender, "f">> \notin DOMAIN receiving_files
        /\ other # sender
        /\ <<other, "f">> \in DOMAIN receiving_files

\* C24 (Cancel collapses the transfer): after a cancel record for a
\* transfer that is accepted (receiving side) or offered or being sent
\* (sending side), the receiver appends no later chunk of it, and the
\* sender neither starts sending on a later accept nor sends another chunk.
C24_CancelCollapses ==
    [][/\ \A sender \in Peers : \A filename \in RecvNames :
          \A data \in Payloads : \A is_last_chunk \in BOOLEAN :
            (/\ OnFileData(sender, filename, data, is_last_chunk)
             /\ <<"recv", sender, filename>> \in cancelled)
            => disk' = disk
       /\ \A sender \in Peers : \A filename \in SrcNames :
            (/\ OnFileAccept(sender, filename)
             /\ <<"send", sender, filename>> \in cancelled)
            => chunkers' = chunkers
       /\ \A i \in DOMAIN chunkers :
            (/\ ChunkStep(i)
             /\ <<"send", chunkers[i].to, chunkers[i].filename>>
                  \in cancelled)
            => \A j \in DOMAIN usent' : usent'[j].call # "send_file_data"
      ]_vars

\* C25 (Transfer reaches DONE): once the complete record of the sender has
\* been received, no transfer entry for that (sender, filename) remains at
\* the receiver, whatever the number of chunks of the file.
C25_TransferReachesDone ==
    [][\A sender \in Peers : \A filename \in RecvNames :
         OnFileComplete(sender, filename)
         => <<sender, filename>> \notin DOMAIN receiving_files'
      ]_vars

\* C26 (Sender chunking): a _send_file_chunks thread has sent, so far, data
\* records with chunk_index 0, 1, ... in that order, each with the next
\* ChunkSize bytes of the file (the rest of the file in the last one) and
\* with is_last true exactly on chunk n-1, where n is the number of chunks
\* of the file; a thread that has ended has sent the n data records and
\* then the complete record.
C26_SenderChunking ==
    /\ \A t \in {chunkers[i] : i \in DOMAIN chunkers}
              \cup {finished[i] : i \in DOMAIN finished} :
         LET size == getsize(t.path)
             n == (size + ChunkSize - 1) \div ChunkSize
             data == {j \in DOMAIN t.sent : t.sent[j].call = "send_file_data"}
         IN /\ data = 1..Cardinality(data)
            /\ Cardinality(data) <= n
            /\ \A j \in data :
                 /\ t.sent[j].to = t.to
                 /\ t.sent[j].filename = t.filename
                 /\ t.sent[j].chunk_index = j - 1
                 /\ t.sent[j].is_last = (j = n)
                 /\ t.sent[j].data =
                      [b \in 1..(IF j = n THEN size - (n - 1) * ChunkSize
                                 ELSE ChunkSize) |->
                         (j - 1) * ChunkSize + b]
    /\ \A i \in DOMAIN chunkers : Len(chunkers[i].sent) = chunkers[i].chunk_index
    /\ \A i \in DOMAIN finished :
         LET t == finished[i]
             n == (getsize(t.path) + ChunkSize - 1) \div ChunkSize
         IN /\ Len(t.sent) = n + 1
            /\ t.sent[n + 1] = [call |-> "send_file_complete", to |-> t.to,
                                filename |-> t.filename]

\* a thread has ended after sending a file of more than one chunk whose
\* last chunk is shorter than the others
C26_Witness ==
    \E i \in DOMAIN finished :
        /\ getsize(finished[i].path) > ChunkSize
        /\ getsize(finished[i].path) % ChunkSize # 0
        /\ Len(finished[i].sent) >= 3

\* C32 (Cleanup touches only its own session): the remove_client that ends
\* the worker of a connection leaves every session of another connection
\* registered and its socket open, also when the worker's handle was
\* evicted by the sweep and registered again by that other connection.
C32_CleanupOwnSession ==
    [][\A c \in Conns :
         RemoveClient(c)
         => \A h \in DOMAIN clients :
              clients[h].conn # c
              => /\ h \in DOMAIN clients'
                 /\ clients'[h] = clients[h]
                 /\ open'[clients[h].conn] = open[clients[h].conn]
      ]_vars

\* C33 (Only the registered connection acts for a handle): a record that
\* the worker of a connection processes after the sweep has removed its
\* session is relayed to nobody, and a ping it processes changes no session
\* of the registry.
C33_OnlyRegisteredActs ==
    [][\A c \in Conns : \A line \in LoopLines :
         (HandleRecord(c, line) /\ gone[c] = "sweep")
         => /\ \A d \in sent' : d[2].action # ACTION_MESSAGE
            /\ clients' = clients
      ]_vars

\* C34 (Single disconnect notification): since the last successful connect
\* on_disconnected has been invoked at most once.
C34_SingleDisconnectNotification == notified <= 1

\* C35 (One heartbeat worker per session): a ping loop that an earlier
\* session started and that wakes after a new successful connect writes
\* nothing to the socket and ends.
C35_OneHeartbeatWorker ==
    [][((\E ok \in BOOLEAN : PingerWake(ok)) /\ op' = "pinger_earlier")
         => /\ cwritten' = << >>
            /\ pingers' = pingers - 1
      ]_vars

\* C31 (Data only after accept): a data record for (recipient, filename) is
\* sent only by a _send_file_chunks thread for that pair; such a thread is
\* started only by an accept from that recipient for that filename, received
\* after a request for that file was sent to that recipient; an accept from
\* another user or for another filename starts no thread.
C31_DataOnlyAfterAccept ==
    [][/\ \A j \in DOMAIN usent' :
            usent'[j].call = "send_file_data"
            => \E i \in DOMAIN chunkers :
                 /\ chunkers[i].to = usent'[j].to
                 /\ chunkers[i].filename = usent'[j].filename
       /\ Len(chunkers') > Len(chunkers)
            => LET t == chunkers'[Len(chunkers')] IN
               /\ OnFileAccept(t.to, t.filename)
               /\ <<t.to, t.filename>> \in requested
               /\ t.sent = << >>
       /\ \A k \in requested' \ requested :
            \E j \in DOMAIN usent' :
              /\ usent'[j].call = "send_file_request"
              /\ usent'[j].to = k[1]
              /\ basename(usent'[j].file_path) = k[2]
       /\ \A sender \in Peers : \A filename \in SrcNames :
            (/\ OnFileAccept(sender, filename)
             /\ <<sender, filename>> \notin requested)
            => chunkers' = chunkers
      ]_vars

\* a thread started by the accept of a requested file has just sent a data
\* record to the recipient of the request
C31_Witness ==
    \E i \in DOMAIN chunkers :
        /\ Len(chunkers[i].sent) >= 1
        /\ chunkers[i].sent[1].call = "send_file_data"
        /\ chunkers[i].sent[1].to = chunkers[i].to
        /\ usent = <<chunkers[i].sent[Len(chunkers[i].sent)]>>

\* C36 (Every accepted request is served): an accept for a file that was
\* requested from its sender and is not yet accepted starts the thread that
\* sends the chunks of that file to that sender, whatever other requests
\* are outstanding.
C36_EveryAcceptServed ==
    [][\A sender \in Peers : \A filename \in SrcNames :
         (/\ OnFileAccept(sender, filename)
          /\ <<sender, filename>> \in requested)
         => /\ Len(chunkers') = Len(chunkers) + 1
            /\ chunkers'[Len(chunkers')].to = sender
            /\ chunkers'[Len(chunkers')].filename = filename
      ]_vars

====
